---- MODULE Spec2Model ----
(***************************************************************************)
(* State-vector simulator of src/qforte/quantum_computer.cc: the Basis     *)
(* bit-encoded index, the QuantumComputer amplitude vectors coeff_ and     *)
(* new_coeff_, and the gate-application routines.                          *)
(*                                                                         *)
(* Amplitudes are std::complex<double>; they are modelled as Gaussian      *)
(* integers <<re, im>>, a subset of the doubles on which + and * are       *)
(* exact.  Vectors are functions on 0 .. size-1, as in the C++.            *)
(***************************************************************************)
EXTENDS Integers, Sequences, FiniteSets, TLC

(* ----------------------------- bounds --------------------------------- *)
\* largest register size constructed
MaxN == 4
\* longest assignment list passed to set_state
MaxAssign == 2
\* longest circuit passed to apply_circuit
MaxCircuit == 2
\* number of public calls made on one QuantumComputer
MaxSteps == 2
\* number of direct calls of a gate routine / of a Basis method
MaxCalls == 1

(* ------------------------ complex arithmetic -------------------------- *)
C0 == <<0, 0>>
C1r == <<1, 0>>
Ci == <<0, 1>>
CAdd(a, b) == <<a[1] + b[1], a[2] + b[2]>>
CMul(a, b) == <<a[1] * b[1] - a[2] * b[2], a[1] * b[2] + a[2] * b[1]>>
CConj(a) == <<a[1], 0 - a[2]>>
\* |a|^2
CNorm2(a) == a[1] * a[1] + a[2] * a[2]

(* ------------------------------ Basis --------------------------------- *)
\* A Basis is its state_, an unsigned integer; bit i is qubit i.
RECURSIVE BitXor(_, _)
BitXor(a, b) ==
    IF a = 0 THEN b
    ELSE IF b = 0 THEN a
    ELSE (((a % 2) + (b % 2)) % 2) + 2 * BitXor(a \div 2, b \div 2)

RECURSIVE BitAnd(_, _)
BitAnd(a, b) ==
    IF a = 0 \/ b = 0 THEN 0
    ELSE ((a % 2) * (b % 2)) + 2 * BitAnd(a \div 2, b \div 2)

get_bit(state, pos) == (state \div (2 ^ pos)) % 2

set_bit(state, pos, val) ==
    state - get_bit(state, pos) * (2 ^ pos) + val * (2 ^ pos)

add(state) == state

\* insert without the restore of the low bits: the whole value shifted
insert_shift_only(state, pos) == state * 2

\* Basis::insert: state_ << 1, then the bits under the mask taken from temp.
insert(state, pos) ==
    LET temp == state
        shifted == state * 2
        mask == (2 ^ pos) - 1
    IN  BitXor(shifted, BitAnd(BitXor(shifted, temp), mask))

\* str's loop running from qubit nqubit-1 down to qubit 0
RECURSIVE str_loop_reversed(_, _, _, _)
str_loop_reversed(state, nqubit, i, s) ==
    IF i < nqubit
    THEN str_loop_reversed(state, nqubit, i + 1,
             Append(s, IF get_bit(state, nqubit - 1 - i) = 1 THEN "1" ELSE "0"))
    ELSE s

\* Basis::str: the loop of lines 11-17, appending one character per qubit.
RECURSIVE str_loop(_, _, _, _)
str_loop(state, nqubit, i, s) ==
    IF i < nqubit
    THEN str_loop(state, nqubit, i + 1,
                  Append(s, IF get_bit(state, i) = 1 THEN "1" ELSE "0"))
    ELSE s

str(state, nqubit) == Append(str_loop(state, nqubit, 0, <<"|">>), ">")

(* ------------------------- QuantumComputer ---------------------------- *)
ZeroVec(n) == [k \in 0 .. n - 1 |-> C0]

\* the constructor without line 46: coeff_[0] left at 0
QuantumComputer_no_ground(nqubit) ==
    LET nbasis == 2 ^ nqubit
    IN  [nqubit_    |-> nqubit,
         nbasis_    |-> nbasis,
         basis_     |-> [i \in 0 .. nbasis - 1 |-> i],
         coeff_     |-> ZeroVec(nbasis),
         new_coeff_ |-> ZeroVec(nbasis),
         log        |-> <<>>]

\* The constructor: the object's fields after QuantumComputer(nqubit).
QuantumComputer(nqubit) ==
    LET nbasis == 2 ^ nqubit
    IN  [nqubit_    |-> nqubit,
         nbasis_    |-> nbasis,
         basis_     |-> [i \in 0 .. nbasis - 1 |-> i],
         coeff_     |-> [ZeroVec(nbasis) EXCEPT ![0] = C1r],
         new_coeff_ |-> ZeroVec(nbasis),
         log        |-> <<>>]

\* set_state: the loop of lines 53-55 over the pairs <<Basis, amplitude>>.
RECURSIVE set_state_loop(_, _, _)
set_state_loop(coeff, state, k) ==
    IF k > Len(state) THEN coeff
    ELSE set_state_loop([coeff EXCEPT ![add(state[k][1])] = state[k][2]],
                        state, k + 1)

\* set_state without the fill of line 52
set_state_no_fill(qc, state) ==
    [qc EXCEPT !.coeff_ = set_state_loop(qc.coeff_, state, 1)]

set_state(qc, state) ==
    [qc EXCEPT !.coeff_ = set_state_loop(ZeroVec(qc.nbasis_), state, 1)]

(* ------------------------------ gates --------------------------------- *)
\* A QuantumGate: nqubits(), target(), control() and gate()[i][j].
Gate1(target, m) ==
    [nqubits |-> 1, target |-> target, control |-> target, gate |-> m]
Gate2(control, target, m) ==
    [nqubits |-> 2, target |-> target, control |-> control, gate |-> m]

\* QuantumGate::two_qubits_basis(): the <<control bit, target bit>> pairs.
two_qubits_basis == [i \in 0 .. 3 |-> <<i \div 2, i % 2>>]

\* the scan of apply_1qubit_gate with = in place of += on line 86
RECURSIVE scan_1qubit_overwrite(_, _, _, _, _, _)
scan_1qubit_overwrite(qc, target, i, j, op_i_j, k) ==
    IF k = qc.nbasis_ THEN qc
    ELSE LET basis_J == qc.basis_[k]
         IN  IF get_bit(basis_J, target) = j
             THEN scan_1qubit_overwrite(
                      [qc EXCEPT !.new_coeff_[add(set_bit(basis_J, target, i))] =
                           CMul(op_i_j, qc.coeff_[add(basis_J)])],
                      target, i, j, op_i_j, k + 1)
             ELSE scan_1qubit_overwrite(qc, target, i, j, op_i_j, k + 1)

\* apply_1qubit_gate, innermost loop (lines 82-88) over basis_.
RECURSIVE scan_1qubit(_, _, _, _, _, _)
scan_1qubit(qc, target, i, j, op_i_j, k) ==
    IF k = qc.nbasis_ THEN qc
    ELSE LET basis_J == qc.basis_[k]
         IN  IF get_bit(basis_J, target) = j
             THEN scan_1qubit(
                      [qc EXCEPT !.new_coeff_[add(set_bit(basis_J, target, i))] =
                           CAdd(@, CMul(op_i_j, qc.coeff_[add(basis_J)]))],
                      target, i, j, op_i_j, k + 1)
             ELSE scan_1qubit(qc, target, i, j, op_i_j, k + 1)

\* apply_1qubit_gate, the i and j loops (lines 79-81); n = 2 * i + j.
RECURSIVE loop_1qubit(_, _, _)
loop_1qubit(qc, qg, n) ==
    IF n = 4 THEN qc
    ELSE loop_1qubit(
             scan_1qubit(qc, qg.target, n \div 2, n % 2,
                         qg.gate[n \div 2][n % 2], 0),
             qg, n + 1)

apply_1qubit_gate(qc, qg) == loop_1qubit(qc, qg, 0)

\* apply_1qubit_gate_insertion, innermost loop (lines 102-108) over K.
RECURSIVE scan_insertion(_, _, _, _, _, _)
scan_insertion(qc, target, i, j, op_i_j, K) ==
    IF K >= 2 ^ (qc.nqubit_ - 1) THEN qc
    ELSE LET basis_K == insert(K, target)
             basis_I == set_bit(basis_K, target, i)
             basis_J == set_bit(basis_K, target, j)
         IN  scan_insertion(
                 [qc EXCEPT !.new_coeff_[add(basis_I)] =
                      CAdd(@, CMul(op_i_j, qc.coeff_[add(basis_J)]))],
                 target, i, j, op_i_j, K + 1)

\* apply_1qubit_gate_insertion, the i and j loops (lines 99-101).
RECURSIVE loop_insertion(_, _, _)
loop_insertion(qc, qg, n) ==
    IF n = 4 THEN qc
    ELSE loop_insertion(
             scan_insertion(qc, qg.target, n \div 2, n % 2,
                            qg.gate[n \div 2][n % 2], 0),
             qg, n + 1)

apply_1qubit_gate_insertion(qc, qg) == loop_insertion(qc, qg, 0)

\* the scan of apply_2qubit_gate with i_c and i_t exchanged on lines 130-131
RECURSIVE scan_2qubit_exchanged(_, _, _, _, _, _, _)
scan_2qubit_exchanged(qc, control, target, i, j, op_i_j, k) ==
    IF k = qc.nbasis_ THEN qc
    ELSE LET basis_J == qc.basis_[k]
         IN  IF /\ get_bit(basis_J, control) = two_qubits_basis[j][1]
                /\ get_bit(basis_J, target) = two_qubits_basis[j][2]
             THEN LET basis_I ==
                          set_bit(set_bit(basis_J, control, two_qubits_basis[i][2]),
                                  target, two_qubits_basis[i][1])
                  IN  scan_2qubit_exchanged(
                          [qc EXCEPT !.new_coeff_[add(basis_I)] =
                               CAdd(@, CMul(op_i_j, qc.coeff_[add(basis_J)]))],
                          control, target, i, j, op_i_j, k + 1)
             ELSE scan_2qubit_exchanged(qc, control, target, i, j, op_i_j, k + 1)

\* apply_2qubit_gate, innermost loop (lines 127-134) over basis_.
RECURSIVE scan_2qubit(_, _, _, _, _, _, _)
scan_2qubit(qc, control, target, i, j, op_i_j, k) ==
    IF k = qc.nbasis_ THEN qc
    ELSE LET basis_J == qc.basis_[k]
         IN  IF /\ get_bit(basis_J, control) = two_qubits_basis[j][1]
                /\ get_bit(basis_J, target) = two_qubits_basis[j][2]
             THEN LET basis_I ==
                          set_bit(set_bit(basis_J, control, two_qubits_basis[i][1]),
                                  target, two_qubits_basis[i][2])
                  IN  scan_2qubit(
                          [qc EXCEPT !.new_coeff_[add(basis_I)] =
                               CAdd(@, CMul(op_i_j, qc.coeff_[add(basis_J)]))],
                          control, target, i, j, op_i_j, k + 1)
             ELSE scan_2qubit(qc, control, target, i, j, op_i_j, k + 1)

\* apply_2qubit_gate, the i and j loops (lines 120-126); n = 4 * i + j.
RECURSIVE loop_2qubit(_, _, _)
loop_2qubit(qc, qg, n) ==
    IF n = 16 THEN qc
    ELSE loop_2qubit(
             scan_2qubit(qc, qg.control, qg.target, n \div 4, n % 4,
                         qg.gate[n \div 4][n % 4], 0),
             qg, n + 1)

apply_2qubit_gate(qc, qg) == loop_2qubit(qc, qg, 0)

\* the dispatch with a second branch sending nqubits == 2 to apply_2qubit_gate
apply_gate_dispatch_routed(qc, qg) ==
    IF qg.nqubits = 1 THEN apply_1qubit_gate(qc, qg)
    ELSE IF qg.nqubits = 2 THEN apply_2qubit_gate(qc, qg)
    ELSE qc

\* apply_gate, lines 65-69: only nqubits == 1 runs a routine.
apply_gate_dispatch(qc, qg) ==
    IF qg.nqubits = 1 THEN apply_1qubit_gate(qc, qg) ELSE qc

\* the two vectors exchanged, new_coeff_ not filled with 0
apply_gate_swap_no_clear(qc) ==
    [qc EXCEPT !.coeff_ = qc.new_coeff_, !.new_coeff_ = qc.coeff_]

\* apply_gate, lines 71-72: coeff_ = new_coeff_, then new_coeff_ filled with 0.
apply_gate_swap(qc) ==
    [qc EXCEPT !.coeff_ = qc.new_coeff_, !.new_coeff_ = ZeroVec(qc.nbasis_)]

\* apply_gate; the vectors at its entry, after its routine and at its return
\* are appended to the log.
apply_gate(qc, qg) ==
    LET mid == apply_gate_dispatch(qc, qg)
        exit == apply_gate_swap(mid)
    IN  [exit EXCEPT !.log = Append(@,
            [gate |-> qg,
             entry_coeff |-> qc.coeff_, entry_new |-> qc.new_coeff_,
             mid_coeff |-> mid.coeff_, mid_new |-> mid.new_coeff_,
             exit_coeff |-> exit.coeff_, exit_new |-> exit.new_coeff_])]

\* apply_circuit: apply_gate on each gate of qc.gates(), in order.
RECURSIVE apply_circuit_loop(_, _, _)
apply_circuit_loop(qc, gates, k) ==
    IF k > Len(gates) THEN qc
    ELSE apply_circuit_loop(apply_gate(qc, gates[k]), gates, k + 1)

apply_circuit(qc, gates) == apply_circuit_loop(qc, gates, 1)

(* ------------------------------ inputs -------------------------------- *)
\* A square matrix gate()[i][j], 0-indexed, from its rows.
Mat(rows) ==
    [i \in 0 .. Len(rows) - 1 |-> [j \in 0 .. Len(rows) - 1 |-> rows[i + 1][j + 1]]]

\* Pauli Y: unitary, complex, not symmetric.
Y_ == Mat(<< <<C0, <<0, -1>>>>, <<Ci, C0>> >>)
\* A matrix with four distinct entries, not unitary.
G_ == Mat(<< <<C1r, <<2, 0>>>>, <<<<3, 0>>, Ci>> >>)
\* CNOT in the ordering 00,01,10,11 of <<control, target>>: unitary.
CNOT_ ==
    Mat(<< <<C1r, C0, C0, C0>>, <<C0, C1r, C0, C0>>,
           <<C0, C0, C0, C1r>>, <<C0, C0, C1r, C0>> >>)
\* A 4x4 matrix with sixteen distinct entries, not unitary.
G4_ == [i \in 0 .. 3 |-> [j \in 0 .. 3 |-> <<4 * i + j + 1, j - i>>]]

Matrices1 == {Y_, G_}
Matrices2 == {CNOT_, G4_}

Qubits(n) == 0 .. n - 1
Gates1(n) == {Gate1(t, m) : t \in Qubits(n), m \in Matrices1}
QubitPairs(n) == {ct \in Qubits(n) \X Qubits(n) : ct[1] # ct[2]}
Gates2(n) == {Gate2(ct[1], ct[2], m) : ct \in QubitPairs(n), m \in Matrices2}
\* the gates handed to apply_gate: every 1-qubit gate, CNOT on neighbours
Gates(n) ==
    Gates1(n) \cup {Gate2((t + 1) % n, t, CNOT_) : t \in {q \in Qubits(n) : n >= 2}}
\* the gates circuits are built from
CircuitGates(n) ==
    {Gate1(n - 1, G_), IF n >= 2 THEN Gate2(n - 1, 0, CNOT_) ELSE Gate1(0, Y_)}

SeqsUpTo(S, n) == UNION {[1 .. m -> S] : m \in 0 .. n}
Circuits(n) == SeqsUpTo(CircuitGates(n), MaxCircuit)

\* the <<Basis, amplitude>> pairs handed to set_state
\* (index 0 once, the last index with two different amplitudes)
StatePairs(n) == {<<0, Ci>>, <<(2 ^ n) - 1, C1r>>, <<(2 ^ n) - 1, Ci>>}
Assignments(n) == SeqsUpTo(StatePairs(n), MaxAssign)

(* ------------------------------- state -------------------------------- *)
VARIABLES
    nqubit_, nbasis_, basis_, coeff_, new_coeff_,   \* the QuantumComputer
    state_,      \* a Basis object
    ret,         \* the value the last call returned (Basis::str)
    call,        \* the last call and its arguments
    pre,         \* ghost: coeff_, new_coeff_ and state_ on entry to the last call
    log,         \* ghost: one entry per apply_gate run inside the last call
    steps        \* number of calls made so far

vars == <<nqubit_, nbasis_, basis_, coeff_, new_coeff_, state_, ret, call, pre,
          log, steps>>

self ==
    [nqubit_ |-> nqubit_, nbasis_ |-> nbasis_, basis_ |-> basis_,
     coeff_ |-> coeff_, new_coeff_ |-> new_coeff_, log |-> <<>>]

NoGate == [nqubits |-> 0, target |-> 0, control |-> 0, gate |-> <<>>]
Call(op, gate, state, qc, n) ==
    [op |-> op, gate |-> gate, state |-> state, qc |-> qc, n |-> n]
Snapshot == [coeff_ |-> coeff_, new_coeff_ |-> new_coeff_, state_ |-> state_]
\* set_state overwrites coeff_ without reading it: only the scratch is recorded
ScratchSnapshot == [coeff_ |-> <<>>, new_coeff_ |-> new_coeff_, state_ |-> state_]

Store(qc) ==
    /\ nqubit_' = qc.nqubit_
    /\ nbasis_' = qc.nbasis_
    /\ basis_' = qc.basis_
    /\ coeff_' = qc.coeff_
    /\ new_coeff_' = qc.new_coeff_
    /\ log' = qc.log

Constructed(n) ==
    /\ nqubit_ = QuantumComputer(n).nqubit_
    /\ nbasis_ = QuantumComputer(n).nbasis_
    /\ basis_ = QuantumComputer(n).basis_
    /\ coeff_ = QuantumComputer(n).coeff_
    /\ new_coeff_ = QuantumComputer(n).new_coeff_

(* ------------------- the public calls: Spec --------------------------- *)
Init ==
    /\ \E n \in 1 .. MaxN : Constructed(n)
    /\ state_ = 0
    /\ ret = <<>>
    /\ call = Call("QuantumComputer", NoGate, <<>>, <<>>, nqubit_)
    /\ pre = Snapshot
    /\ log = <<>>
    /\ steps = 0

SetState(a) ==
    /\ steps < MaxSteps
    /\ \E qc \in {set_state(self, a)} : Store(qc)
    /\ call' = Call("set_state", NoGate, a, <<>>, 0)
    /\ pre' = ScratchSnapshot
    /\ steps' = steps + 1
    /\ UNCHANGED <<state_, ret>>

ApplyGate(g) ==
    /\ steps < MaxSteps
    /\ \E qc \in {apply_gate(self, g)} : Store(qc)
    /\ call' = Call("apply_gate", g, <<>>, <<>>, 0)
    /\ pre' = Snapshot
    /\ steps' = steps + 1
    /\ UNCHANGED <<state_, ret>>

ApplyCircuit(c) ==
    /\ steps < MaxSteps
    /\ \E qc \in {apply_circuit(self, c)} : Store(qc)
    /\ call' = Call("apply_circuit", NoGate, <<>>, c, 0)
    /\ pre' = Snapshot
    /\ steps' = steps + 1
    /\ UNCHANGED <<state_, ret>>

Next ==
    \/ \E a \in Assignments(nqubit_) : SetState(a)
    \/ \E g \in Gates(nqubit_) : ApplyGate(g)
    \/ \E c \in Circuits(nqubit_) : ApplyCircuit(c)

Spec == Init /\ [][Next]_vars

(* ------- the gate routines called directly: OneQubitSpec, TwoQubitSpec ---- *)
\* A set_state list that gives every basis index its own non-zero amplitude.
DenseState(n) == [k \in 1 .. 2 ^ n |-> <<k - 1, <<k, k % 3>>>>]
\* the dense list, the empty list and every one-pair list
KernelInputs(n) == {DenseState(n), <<>>} \cup {<<p>> : p \in StatePairs(n)}
\* every 1-qubit gate, and the sixteen-entry matrix on every qubit pair
KernelGates1(n) == Gates1(n)
KernelGates2(n) == {g \in Gates2(n) : g.gate = G4_}

\* A register after construction and one set_state, nothing applied yet.
KernelInit ==
    /\ \E n \in 1 .. MaxN : \E a \in KernelInputs(n) :
           \E qc \in {set_state(QuantumComputer(n), a)} :
               /\ nqubit_ = qc.nqubit_
               /\ nbasis_ = qc.nbasis_
               /\ basis_ = qc.basis_
               /\ coeff_ = qc.coeff_
               /\ new_coeff_ = qc.new_coeff_
    /\ state_ = 0
    /\ ret = <<>>
    /\ call = Call("set_state", NoGate, <<>>, <<>>, 0)
    /\ pre = ScratchSnapshot
    /\ log = <<>>
    /\ steps = 0

Apply1QubitGate(g) ==
    /\ steps < MaxCalls
    /\ \E qc \in {apply_1qubit_gate(self, g)} : Store(qc)
    /\ call' = Call("apply_1qubit_gate", g, <<>>, <<>>, 0)
    /\ pre' = Snapshot
    /\ steps' = steps + 1
    /\ UNCHANGED <<state_, ret>>

Apply1QubitGateInsertion(g) ==
    /\ steps < MaxCalls
    /\ \E qc \in {apply_1qubit_gate_insertion(self, g)} : Store(qc)
    /\ call' = Call("apply_1qubit_gate_insertion", g, <<>>, <<>>, 0)
    /\ pre' = Snapshot
    /\ steps' = steps + 1
    /\ UNCHANGED <<state_, ret>>

Apply2QubitGate(g) ==
    /\ steps < MaxCalls
    /\ \E qc \in {apply_2qubit_gate(self, g)} : Store(qc)
    /\ call' = Call("apply_2qubit_gate", g, <<>>, <<>>, 0)
    /\ pre' = Snapshot
    /\ steps' = steps + 1
    /\ UNCHANGED <<state_, ret>>

\* the two 1-qubit routines
OneQubitNext ==
    \/ \E g \in KernelGates1(nqubit_) : Apply1QubitGate(g)
    \/ \E g \in KernelGates1(nqubit_) : Apply1QubitGateInsertion(g)

OneQubitSpec == KernelInit /\ [][OneQubitNext]_vars

\* the 2-qubit routine
TwoQubitNext == \E g \in KernelGates2(nqubit_) : Apply2QubitGate(g)

TwoQubitSpec == KernelInit /\ [][TwoQubitNext]_vars

(* ------------------- the Basis methods: BasisSpec --------------------- *)
\* A Basis of an n-qubit register, next to a freshly constructed register.
BasisInit ==
    /\ \E n \in 1 .. MaxN : Constructed(n)
    /\ state_ \in 0 .. nbasis_ - 1
    /\ ret = <<>>
    /\ call = Call("Basis", NoGate, <<>>, <<>>, state_)
    /\ pre = Snapshot
    /\ log = <<>>
    /\ steps = 0

\* Basis::insert(pos): state_ is replaced, *this returned.
Insert(pos) ==
    /\ steps < MaxCalls
    /\ state_' = insert(state_, pos)
    /\ call' = Call("insert", NoGate, <<>>, <<>>, pos)
    /\ pre' = Snapshot
    /\ steps' = steps + 1
    /\ UNCHANGED <<nqubit_, nbasis_, basis_, coeff_, new_coeff_, ret, log>>

\* Basis::str(nqubit): const, returns the string.
Str(nqubit) ==
    /\ steps < MaxCalls
    /\ ret' = str(state_, nqubit)
    /\ call' = Call("str", NoGate, <<>>, <<>>, nqubit)
    /\ pre' = Snapshot
    /\ steps' = steps + 1
    /\ UNCHANGED <<nqubit_, nbasis_, basis_, coeff_, new_coeff_, state_, log>>

BasisNext ==
    \/ \E pos \in Qubits(nqubit_) : Insert(pos)
    \/ \E nqubit \in 0 .. nqubit_ : Str(nqubit)

BasisSpec == BasisInit /\ [][BasisNext]_vars

(* ======================= properties =================================== *)
Indices == 0 .. nbasis_ - 1
Zero == ZeroVec(nbasis_)
NonZero(v) == {k \in DOMAIN v : v[k] # C0}
Digit(b) == IF b = 1 THEN "1" ELSE "0"
\* the register as it was on entry to the last call
Before == [self EXCEPT !.coeff_ = pre.coeff_, !.new_coeff_ = pre.new_coeff_]

RECURSIVE Norm2Upto(_, _)
Norm2Upto(v, k) == IF k < 0 THEN 0 ELSE CNorm2(v[k]) + Norm2Upto(v, k - 1)
\* total probability: the sum of |v[i]|^2
TotalProbability(v) == Norm2Upto(v, Cardinality(DOMAIN v) - 1)

RECURSIVE DotUpto(_, _, _, _)
\* sum over r <= k of conj(m[r][a]) * m[r][b]
DotUpto(m, a, b, k) ==
    IF k < 0 THEN C0
    ELSE CAdd(CMul(CConj(m[k][a]), m[k][b]), DotUpto(m, a, b, k - 1))
IsUnitary(m) ==
    \A a \in DOMAIN m : \A b \in DOMAIN m :
        DotUpto(m, a, b, Cardinality(DOMAIN m) - 1) = IF a = b THEN C1r ELSE C0

(* ---- C7 ---- *)
\* C7: right after QuantumComputer(N), coeff_, new_coeff_ and basis_ each have
\* 2^N entries, coeff_ is 1 at index 0 and 0 elsewhere, new_coeff_ is all
\* zeros and basis_[i] has index i.
C7_Constructed ==
    call.op = "QuantumComputer" =>
        /\ DOMAIN coeff_ = 0 .. (2 ^ nqubit_) - 1
        /\ DOMAIN new_coeff_ = 0 .. (2 ^ nqubit_) - 1
        /\ DOMAIN basis_ = 0 .. (2 ^ nqubit_) - 1
        /\ coeff_[0] = <<1, 0>>
        /\ \A i \in DOMAIN coeff_ : i > 0 => coeff_[i] = <<0, 0>>
        /\ \A i \in DOMAIN new_coeff_ : new_coeff_[i] = <<0, 0>>
        /\ \A i \in DOMAIN basis_ : add(basis_[i]) = i

C7_Witness == call.op = "QuantumComputer" /\ nqubit_ = 3 /\ nbasis_ = 8

(* ---- C4 ---- *)
\* the amplitude of the last pair of the list whose Basis has index k, else 0
LastAmp(state, k) ==
    LET at == {m \in 1 .. Len(state) : add(state[m][1]) = k}
    IN  IF at = {} THEN C0
        ELSE state[CHOOSE m \in at : \A o \in at : o <= m][2]

\* C4: after set_state(assignments), whatever coeff_ held, coeff_[k] is the
\* amplitude of the last pair with index k and 0 where no pair mentions k;
\* new_coeff_ is unchanged.
C4_SetState ==
    call.op = "set_state" =>
        /\ \A k \in Indices : coeff_[k] = LastAmp(call.state, k)
        /\ new_coeff_ = pre.new_coeff_

\* a list naming one index twice with different amplitudes, given after a call
\* that had left amplitude on an index the list does not mention
C4_Witness ==
    /\ call.op = "set_state"
    /\ steps = 2
    /\ Len(call.state) = 2
    /\ call.state[1][1] = call.state[2][1]
    /\ call.state[1][2] # call.state[2][2]
    /\ coeff_[call.state[2][1]] = call.state[2][2]

(* ---- C2 ---- *)
\* C2: after apply_gate with a 1-qubit gate on target t, for every index I,
\* coeff_[I] = op[b][0] * old[I with bit t = 0] + op[b][1] * old[I with bit t = 1]
\* where b is bit t of I and old is the pre-gate coeff_.
C2_OneQubitAction ==
    (call.op = "apply_gate" /\ call.gate.nqubits = 1) =>
        \A I \in Indices :
            LET t == call.gate.target
                b == get_bit(I, t)
            IN  coeff_[I] =
                    CAdd(CMul(call.gate.gate[b][0], pre.coeff_[set_bit(I, t, 0)]),
                         CMul(call.gate.gate[b][1], pre.coeff_[set_bit(I, t, 1)]))

\* a gate with four non-zero entries applied where both contributions to an
\* output index are non-zero
C2_Witness ==
    /\ call.op = "apply_gate"
    /\ call.gate.nqubits = 1
    /\ call.gate.gate = G_
    /\ nqubit_ >= 3
    /\ \E I \in Indices :
           /\ pre.coeff_[set_bit(I, call.gate.target, 0)] # C0
           /\ pre.coeff_[set_bit(I, call.gate.target, 1)] # C0

(* ---- C3 ---- *)
\* C3: total probability is the same after apply_gate as before it, for any
\* unitary gate matrix (2x2 or 4x4), in apply_gate and inside apply_circuit.
C3_ProbabilityPreserved ==
    \A k \in 1 .. Len(log) :
        IsUnitary(log[k].gate.gate) =>
            TotalProbability(log[k].exit_coeff) = TotalProbability(log[k].entry_coeff)

(* ---- C8 ---- *)
\* C8: new_coeff_ is all zeros on entry to and on return from every
\* apply_gate, coeff_ is not written before the swap, and the post-gate
\* coeff_ is what the gate makes of the pre-gate coeff_ alone.
C8_ScratchDiscipline ==
    /\ new_coeff_ = Zero
    /\ \A k \in 1 .. Len(log) :
           /\ log[k].entry_new = Zero
           /\ log[k].exit_new = Zero
           /\ log[k].mid_coeff = log[k].entry_coeff
           /\ log[k].exit_coeff =
                  apply_gate([QuantumComputer(nqubit_) EXCEPT
                                  !.coeff_ = log[k].entry_coeff],
                             log[k].gate).coeff_
    /\ (log # <<>>) => coeff_ = log[Len(log)].exit_coeff

\* the second 1-qubit gate of a circuit, applied to a superposition, in the
\* second call made on the register
C8_Witness ==
    /\ call.op = "apply_circuit"
    /\ steps = 2
    /\ Len(log) = 2
    /\ log[2].gate.nqubits = 1
    /\ Cardinality(NonZero(log[2].entry_coeff)) >= 2
    /\ Cardinality(NonZero(log[2].exit_coeff)) >= 2

(* ---- C10 ---- *)
\* C10: apply_gate with a gate whose nqubits() is not 1 leaves coeff_ all
\* zeros whatever the prior state, and coeff_ then stays all zeros through the
\* remaining gates of the circuit and through later apply_gate and
\* apply_circuit calls, until set_state.
C10_NonOneQubitZeroes ==
    /\ \A k \in 1 .. Len(log) :
           log[k].gate.nqubits # 1 =>
               \A m \in k .. Len(log) : log[m].exit_coeff = Zero
    /\ \A k \in 1 .. Len(log) :
           log[k].entry_coeff = Zero => log[k].exit_coeff = Zero
    /\ (call.op \in {"apply_gate", "apply_circuit"} /\ pre.coeff_ = Zero) =>
           coeff_ = Zero

\* a circuit whose 2-qubit gate meets a non-zero state and is followed by a
\* 1-qubit gate
C10_Witness ==
    /\ call.op = "apply_circuit"
    /\ Len(log) = 2
    /\ log[1].gate.nqubits = 2
    /\ log[1].entry_coeff # Zero
    /\ log[2].gate.nqubits = 1
    /\ coeff_ = Zero

(* ---- C1 ---- *)
\* C1: from an all-zero new_coeff_, apply_1qubit_gate and
\* apply_1qubit_gate_insertion leave the same vector in new_coeff_, for the
\* same coeff_, gate and target: whichever of the two was called, new_coeff_
\* is what the other one makes of the register as it was on entry.
C1_DenseEqualsInsertion ==
    /\ (call.op = "apply_1qubit_gate" /\ pre.new_coeff_ = Zero) =>
           new_coeff_ = apply_1qubit_gate_insertion(Before, call.gate).new_coeff_
    /\ (call.op = "apply_1qubit_gate_insertion" /\ pre.new_coeff_ = Zero) =>
           new_coeff_ = apply_1qubit_gate(Before, call.gate).new_coeff_

\* the insertion routine on a middle qubit of a dense state
C1_Witness ==
    /\ call.op = "apply_1qubit_gate_insertion"
    /\ pre.new_coeff_ = Zero
    /\ nqubit_ = 4
    /\ call.gate.target = 2
    /\ call.gate.gate = G_
    /\ NonZero(pre.coeff_) = Indices
    /\ NonZero(new_coeff_) = Indices

(* ---- C9 ---- *)
\* I with its control bit set to c and its target bit set to t
WithBits(I, control, target, c, t) == set_bit(set_bit(I, control, c), target, t)

\* C9: from an all-zero new_coeff_, apply_2qubit_gate leaves
\* new_coeff_[I] = sum over j in 0..3 of op[i][j] * coeff_[I with its
\* (control, target) bits set to combination j], i being the combination of
\* I's own bits, combinations counted 00,01,10,11 with control the high bit;
\* coeff_ is unchanged.
C9_TwoQubitAction ==
    (call.op = "apply_2qubit_gate" /\ pre.new_coeff_ = Zero) =>
        /\ coeff_ = pre.coeff_
        /\ \A I \in Indices :
               LET c == call.gate.control
                   t == call.gate.target
                   op == call.gate.gate
                   i == 2 * get_bit(I, c) + get_bit(I, t)
                   term(j) == CMul(op[i][j],
                                   pre.coeff_[WithBits(I, c, t, j \div 2, j % 2)])
               IN  new_coeff_[I] =
                       CAdd(CAdd(CAdd(term(0), term(1)), term(2)), term(3))

\* the sixteen-entry matrix on a dense state, control below target
C9_Witness ==
    /\ call.op = "apply_2qubit_gate"
    /\ pre.new_coeff_ = Zero
    /\ nqubit_ = 4
    /\ call.gate.control = 1
    /\ call.gate.target = 3
    /\ call.gate.gate = G4_
    /\ NonZero(pre.coeff_) = Indices
    /\ NonZero(new_coeff_) = Indices

(* ---- C5 ---- *)
\* C5: for an (N-1)-bit value v and pos in [0, N-1], insert(pos) yields the
\* value whose bits below pos are those of v, whose bits above pos are the
\* bits of v at or above pos moved up by one, and whose bit at pos is 0.
C5_InsertClearsSlot ==
    (call.op = "insert" /\ pre.state_ < 2 ^ (nqubit_ - 1)) =>
        /\ state_ < 2 ^ nqubit_
        /\ \A b \in 0 .. nqubit_ - 1 :
               /\ b < call.n => get_bit(state_, b) = get_bit(pre.state_, b)
               /\ b > call.n => get_bit(state_, b) = get_bit(pre.state_, b - 1)
               /\ b = call.n => get_bit(state_, b) = 0

(* ---- C6 ---- *)
\* C6 as stated: str(nqubit) is '|', nqubit characters and '>', the first
\* character being qubit nqubit-1 and the last qubit 0.
C6_MostSignificantFirst ==
    (call.op = "str" /\ call.n >= 1) =>
        /\ Len(ret) = call.n + 2
        /\ ret[1] = "|"
        /\ ret[Len(ret)] = ">"
        /\ ret[2] = Digit(get_bit(pre.state_, call.n - 1))
        /\ ret[Len(ret) - 1] = Digit(get_bit(pre.state_, 0))

\* C6 amended: str(nqubit) is '|', nqubit characters and '>', the character
\* at place q after '|' (q = 0 first) being the value of qubit q: qubit 0
\* first, qubit nqubit-1 last.
C6_LeastSignificantFirst ==
    call.op = "str" =>
        /\ Len(ret) = call.n + 2
        /\ ret[1] = "|"
        /\ ret[Len(ret)] = ">"
        /\ \A q \in 0 .. call.n - 1 : ret[q + 2] = Digit(get_bit(pre.state_, q))
        /\ state_ = pre.state_

\* |100> printed for the value 1 of a 3-qubit register
C6_Witness ==
    /\ call.op = "str"
    /\ call.n = 3
    /\ pre.state_ = 1
    /\ ret = <<"|", "1", "0", "0", ">">>

====
